---- MODULE Spec2Model ----
(***************************************************************************)
(* State-machine model of StreamBot's stream session controller            *)
(* (src/src/index.ts): the messageCreate command handlers, the             *)
(* voiceStateUpdate handler, playVideo and cleanupStreamStatus, run on     *)
(* Node's single-threaded event loop.  External collaborators (Discord     *)
(* gateway, voice transport, ffmpeg pipeline, YouTube extraction) are the  *)
(* environment: their outcomes are nondeterministic.                       *)
(*                                                                         *)
(* Spec       the session controller with the catalog of the start-up scan *)
(* SpecExit   the same in a process that signals and faults may terminate  *)
(* SpecLookup the catalog (any scan result, refresh) and the play lookup   *)
(***************************************************************************)
EXTENDS Integers, Sequences, FiniteSets, TLC

VARIABLES
    config,        \* the fields of config.js the handlers read
    streamStatus,  \* index.ts:95  {joined, joinsucc, playing, channelInfo}
    command,       \* index.ts:18  the PCancelable handle: 0 = undefined, else a pipeline id
    streamOpts,    \* index.ts:23  the stream parameters
    videos,        \* index.ts:77  the catalog
    handlers,      \* in-flight messageCreate invocations (play / playlink / ytplay) and their await point
    pipes,         \* playVideo invocations: await point, PCancelable state, streamLivestreamVideo state
    transport,     \* the streamer's voice connection and media stream: "none" or "held"
    botChannel,    \* the bot's own voice membership as the gateway sees it
    gwq,           \* voice-state requests sent to the gateway, not yet processed (FIFO)
    presence,      \* the activity set through client.user.setActivity
    process,       \* the Node process: its state and the crash notices sendCrash has issued
    obs            \* what the last step did: handler, notice sent, log line

vars == <<config, streamStatus, command, streamOpts, videos, handlers, pipes,
          transport, botChannel, gwq, presence, process, obs>>

----------------------------------------------------------------------------
(* Bounds *)
NHandlers == 2     \* message handlers that may be suspended at an await at once
NPipes == 2        \* playVideo invocations that may exist at once
MaxVideos == 3     \* video files a scan finds, where the catalog varies

Handlers == 1..NHandlers
Pipes == 1..NPipes

----------------------------------------------------------------------------
(* Configuration and catalog *)

ConfigInfo == [guildId |-> "guild", channelId |-> "video", cmdChannelId |-> "cmd"]

EmptyInfo == [guildId |-> "", channelId |-> "", cmdChannelId |-> ""]

\* a message passes the filter of index.ts:136-141 only from the command channel
MessageChannels == {"cmd"}

StaticOpts ==
    [width |-> 1280, height |-> 720, fps |-> 30, bitrateKbps |-> 1000, maxBitrateKbps |-> 2500]

\* results of getVideoParams; a bitrate is "N/A" (na) or a number of bits per second
ProbeResults ==
    { [width |-> 1920, height |-> 1080, fps |-> 60,
       bitrate |-> [na |-> FALSE, v |-> 4000999], maxbitrate |-> [na |-> FALSE, v |-> 6000000]] }

\* the video files a scan of config.videosDir may find
Files == {"/v/Movie A.mp4", "/v/Movie_B.mkv", "/v/sub/Movie_A.mp4", "/v/2.mp4"}

\* file name without extension (path.parse(file).name), as its characters
ParsedName ==
    [f \in Files |->
        CASE f = "/v/Movie A.mp4" -> <<"M","o","v","i","e"," ","A">>
          [] f = "/v/Movie_B.mkv" -> <<"M","o","v","i","e","_","B">>
          [] f = "/v/sub/Movie_A.mp4" -> <<"M","o","v","i","e","_","A">>
          [] f = "/v/2.mp4" -> <<"2">>]

\* fileName.replace(/ /g, '_')
ReplaceSpaces(s) == [i \in DOMAIN s |-> IF s[i] = " " THEN "_" ELSE s[i]]

VideoOf(file) == [name |-> ReplaceSpaces(ParsedName[file]), path |-> file]

\* the result of readDirRecursive(config.videosDir) at start-up
VideoFiles == <<"/v/Movie A.mp4", "/v/Movie_B.mkv">>

MapVideos(files) == [i \in DOMAIN files |-> VideoOf(files[i])]

\* the first argument of a play command: absent ("undefined") or a token
\* without blanks.  NumberTable: Number(videoArg) of the tokens that are
\* numerals; NameTable: the characters of a token
NumberTable == [t \in {"-1", "0", "1", "2", "3", "4", "5"} |->
                  CASE t = "-1" -> -1 [] t = "0" -> 0 [] t = "1" -> 1 [] t = "2" -> 2
                    [] t = "3" -> 3 [] t = "4" -> 4 [] t = "5" -> 5]

NameTable == [t \in {"Movie_A", "Movie_B", "Nope", "-1", "0", "1", "2", "3", "4", "5"} |->
                  CASE t = "Movie_A" -> <<"M","o","v","i","e","_","A">>
                    [] t = "Movie_B" -> <<"M","o","v","i","e","_","B">>
                    [] t = "Nope" -> <<"N","o","p","e">>
                    [] t = "-1" -> <<"-","1">>
                    [] OTHER -> <<t>>]

VideoArgs == {"undefined"} \cup DOMAIN NameTable

\* isNaN(Number(videoArg))
IsNaNNumber(videoArg) == videoArg \notin DOMAIN NumberTable

NotFound == [name |-> <<>>, path |-> "undefined"]

\* videos.find(m => m.name === videoArg)
FindByName(vs, videoArg) ==
    IF videoArg \in DOMAIN NameTable /\ \E i \in DOMAIN vs : vs[i].name = NameTable[videoArg]
    THEN vs[CHOOSE i \in DOMAIN vs :
                /\ vs[i].name = NameTable[videoArg]
                /\ \A j \in DOMAIN vs : vs[j].name = NameTable[videoArg] => i <= j]
    ELSE NotFound

\* a lookup that resolves an index beyond the catalog to its last entry
Lookup_Clamped(vs, videoArg) ==
    IF ~IsNaNNumber(videoArg)
    THEN LET videoIndex == NumberTable[videoArg] - 1
         IN IF videoIndex >= 0 /\ Len(vs) > 0
            THEN vs[IF videoIndex < Len(vs) THEN videoIndex + 1 ELSE Len(vs)]
            ELSE NotFound
    ELSE FindByName(vs, videoArg)

\* a lookup that takes the numeral as a 0-based index
Lookup_ZeroBased(vs, videoArg) ==
    IF ~IsNaNNumber(videoArg)
    THEN LET videoIndex == NumberTable[videoArg]
         IN IF videoIndex >= 0 /\ videoIndex < Len(vs) THEN vs[videoIndex + 1] ELSE NotFound
    ELSE FindByName(vs, videoArg)

\* index.ts:162-169
Lookup(vs, videoArg) ==
    IF ~IsNaNNumber(videoArg)
    THEN LET videoIndex == NumberTable[videoArg] - 1
         IN IF videoIndex >= 0 /\ videoIndex < Len(vs) THEN vs[videoIndex + 1] ELSE NotFound
    ELSE FindByName(vs, videoArg)

----------------------------------------------------------------------------
(* Records and helpers *)

IdleHandler == [cmd |-> "none", pc |-> "idle", channel |-> "", rivalPlayed |-> FALSE]

FreePipe == [pc |-> "free", wrapper |-> "none", stream |-> "none", raced |-> FALSE]

\* act: the handler that ran; at: the point it ran from; out: the notice it
\* sent to the chat; log: the level of the line it logged
Obs(act, at, out, log) == [act |-> act, at |-> at, out |-> out, log |-> log]

\* the text of the status reply, index.ts:360-361
BoolText(b) == IF b THEN "true" ELSE "false"

StatusText(ss) == "Joined: " \o BoolText(ss.joined) \o " Playing: " \o BoolText(ss.playing)

\* Node runs the continuation of a settled promise (a microtask) before it
\* handles the next event: while playVideo's continuation is pending, no
\* message, gateway event, signal or I/O completion is handled.  A process that
\* has exited handles nothing; one whose signal handler has called sendCrash
\* has that handler's continuation pending.
NoMicrotask == process.state = "running" /\ \A p \in Pipes : pipes[p].pc /= "settled"

\* a playVideo invocation whose streamLivestreamVideo promise has not settled
Alive(p) == pipes[p].stream = "running"

\* a finished playVideo invocation nobody refers to any more is garbage
Collect(ps, cmd) ==
    [p \in Pipes |-> IF ps[p].pc = "done" /\ ps[p].stream /= "running" /\ cmd /= p
                     THEN FreePipe ELSE ps[p]]

Reusable(p) == pipes[p].pc = "free" \/ (pipes[p].pc = "done" /\ pipes[p].stream /= "running")

FreeSlot == CHOOSE p \in Pipes : Reusable(p) /\ \A q \in Pipes : Reusable(q) => p <= q

InFlight == {h \in Handlers : handlers[h].pc /= "idle"}

\* bound: a command is admitted only while a slot is left for its playVideo
CanAdmit == Cardinality(InFlight) + Cardinality({p \in Pipes : ~Reusable(p)}) < NPipes

LowestIdle(h) == handlers[h].pc = "idle" /\ \A g \in Handlers : handlers[g].pc = "idle" => h <= g

\* the gateway handles voice-state requests in order; a request repeating the
\* one before it changes nothing more, so the two are kept as one
EnqueueJoin(q, h) ==
    IF Len(q) > 0 /\ q[Len(q)].type = "join"
    THEN [q EXCEPT ![Len(q)].hs = @ \cup {h}]
    ELSE Append(q, [type |-> "join", hs |-> {h}])

EnqueueLeave(q) ==
    IF Len(q) > 0 /\ q[Len(q)].type = "leave" THEN q
    ELSE Append(q, [type |-> "leave", hs |-> {}])

JoinPending(h) == \E i \in DOMAIN gwq : gwq[i].type = "join" /\ h \in gwq[i].hs

----------------------------------------------------------------------------
(* The code's state updates *)

AlreadyJoined_Playing == streamStatus.joined /\ streamStatus.playing

\* index.ts:154, 224, 277
AlreadyJoined == streamStatus.joined

\* index.ts:337
\* a stop guard that looks at the handle instead of the joined flag
NotJoined_NoCommand == command = 0

NotJoined == ~streamStatus.joined

voiceStateUpdate_KeepsPlaying(ss, oldCh, newCh) ==
    LET exited == IF oldCh /= "none" /\ newCh = "none"
                  THEN [ss EXCEPT !.joined = FALSE, !.joinsucc = FALSE,
                                  !.channelInfo = ConfigInfo]
                  ELSE ss
    IN IF newCh /= "none" /\ oldCh = "none"
       THEN [exited EXCEPT !.joined = TRUE,
                           !.joinsucc = IF ConfigInfo.guildId = exited.channelInfo.guildId
                                           /\ newCh = exited.channelInfo.channelId
                                        THEN TRUE ELSE @]
       ELSE exited

\* index.ts:107-132; oldCh / newCh are the bot's own oldState / newState channelId
voiceStateUpdate(ss, oldCh, newCh) ==
    LET exited == IF oldCh /= "none" /\ newCh = "none"
                  THEN [joined |-> FALSE, joinsucc |-> FALSE, playing |-> FALSE,
                        channelInfo |-> ConfigInfo]
                  ELSE ss
    IN IF newCh /= "none" /\ oldCh = "none"
       THEN [exited EXCEPT !.joined = TRUE,
                           !.joinsucc = IF ConfigInfo.guildId = exited.channelInfo.guildId
                                           /\ newCh = exited.channelInfo.channelId
                                        THEN TRUE ELSE @]
       ELSE exited

\* a handler that marks the session playing without marking it joined
SetPlaying_OnlyPlaying(ss, ch) ==
    [ss EXCEPT !.playing = TRUE,
               !.channelInfo = [guildId |-> ConfigInfo.guildId,
                                channelId |-> ConfigInfo.channelId,
                                cmdChannelId |-> ch]]

\* index.ts:204-210, 242-248, 300-306
SetPlaying(ss, ch) ==
    [ss EXCEPT !.joined = TRUE, !.playing = TRUE,
               !.channelInfo = [guildId |-> ConfigInfo.guildId,
                                channelId |-> ConfigInfo.channelId,
                                cmdChannelId |-> ch]]

\* index.ts:447-454
cleanupStreamStatus(ss) ==
    [joined |-> FALSE, joinsucc |-> FALSE, playing |-> FALSE, channelInfo |-> EmptyInfo]

\* index.ts:181-194
ApplyVideoParams(opts, resolution) ==
    [opts EXCEPT !.height = resolution.height,
                 !.width = resolution.width,
                 !.bitrateKbps = IF ~resolution.bitrate.na
                                 THEN resolution.bitrate.v \div 1000 ELSE @,
                 !.maxBitrateKbps = IF ~resolution.maxbitrate.na
                                    THEN resolution.bitrate.v \div 1000 ELSE @,
                 !.fps = IF resolution.fps /= 0 THEN resolution.fps ELSE @]

\* command?.cancel(): a pending PCancelable rejects with CancelError; the
\* function it wraps (index.ts:425) takes no onCancel, so the transmission
\* itself is left as it is
Cancel(ps, cmd) ==
    IF cmd /= 0 /\ ps[cmd].wrapper = "pending"
    THEN [ps EXCEPT ![cmd].wrapper = "canceled", ![cmd].pc = "settled"]
    ELSE ps

----------------------------------------------------------------------------
Init ==
    /\ config \in [respect_video_params : BOOLEAN]
    /\ streamStatus = [joined |-> FALSE, joinsucc |-> FALSE, playing |-> FALSE,
                       channelInfo |-> ConfigInfo]
    /\ command = 0
    /\ streamOpts = StaticOpts
    /\ videos = MapVideos(VideoFiles)
    /\ handlers = [h \in Handlers |-> IdleHandler]
    /\ pipes = [p \in Pipes |-> FreePipe]
    /\ transport = "none"
    /\ botChannel = "none"
    /\ gwq = <<>>
    /\ presence = "idle"
    /\ process = [state |-> "running", crashes |-> 0]
    /\ obs = Obs("ready", "start", "none", "info")

----------------------------------------------------------------------------
(* playVideo, index.ts:415-440 *)

\* the call of playVideo by handler h, up to `await command` (index.ts:416-427):
\* the activity is set, the handle is created and stored in command
StartPlayVideo(h) ==
    LET p == FreeSlot IN
    /\ command' = p
    /\ pipes' = Collect([pipes EXCEPT ![p] = [pc |-> "await", wrapper |-> "pending",
                                              stream |-> "running",
                                              raced |-> handlers[h].rivalPlayed]], p)
    /\ presence' = "watching"
    /\ handlers' = [g \in Handlers |->
                      IF g = h THEN IdleHandler
                      ELSE IF handlers[g].pc /= "idle"
                           THEN [handlers[g] EXCEPT !.rivalPlayed = TRUE]
                           ELSE handlers[g]]

\* streamLivestreamVideo settles by itself (the source ends or the pipeline
\* fails); a handle still pending settles with it
StreamSettles(p, how) ==
    /\ NoMicrotask
    /\ pipes[p].stream = "running"
    /\ pipes' = Collect(
          IF pipes[p].wrapper = "pending"
          THEN [pipes EXCEPT ![p].stream = "settled",
                             ![p].wrapper = IF how = "ended" THEN "resolved" ELSE "rejected",
                             ![p].pc = "settled"]
          ELSE [pipes EXCEPT ![p].stream = "settled"], command)
    /\ obs' = Obs("streamLivestreamVideo", how, "none", "none")
    /\ UNCHANGED <<config, process, streamStatus, command, streamOpts, videos, handlers,
                   transport, botChannel, gwq, presence>>

\* the continuation of `await command`: try / catch / finally, index.ts:427-439,
\* with sendFinishMessage (493-499) and cleanupStreamStatus (443-455)
PlayVideoFinally(p) ==
    /\ pipes[p].pc = "settled"
    /\ pipes' = Collect([pipes EXCEPT ![p].pc = "done", ![p].wrapper = "settled"], command)
    /\ transport' = "none"
    /\ gwq' = EnqueueLeave(gwq)
    /\ presence' = "idle"
    /\ streamStatus' = cleanupStreamStatus(streamStatus)
    /\ obs' = Obs("playVideo", pipes[p].wrapper, "Finished playing video",
                  CASE pipes[p].wrapper = "resolved" -> "info"
                    [] pipes[p].wrapper = "rejected" -> "error"
                    [] OTHER -> "none")
    /\ UNCHANGED <<config, process, command, streamOpts, videos, handlers, botChannel>>

\* the same continuation when setSpeaking(false) or setVideoStatus(false)
\* throws (index.ts:435-436): try and catch have run, the finally block is
\* left at the throw and playVideo's promise, which no caller awaits, rejects
PlayVideoFinallyThrows(p) ==
    /\ pipes[p].pc = "settled"
    /\ pipes' = Collect([pipes EXCEPT ![p].pc = "done", ![p].wrapper = "settled"], command)
    /\ obs' = Obs("playVideo", pipes[p].wrapper, "none",
                  CASE pipes[p].wrapper = "resolved" -> "info"
                    [] pipes[p].wrapper = "rejected" -> "error"
                    [] OTHER -> "none")
    /\ UNCHANGED <<config, process, streamStatus, command, streamOpts, videos, handlers,
                   transport, botChannel, gwq, presence>>

----------------------------------------------------------------------------
(* messageCreate, index.ts:135-412 *)

\* streamer.joinVoice(guildId, channelId, streamOpts) is called: a voice
\* connection is created and the join request goes to the gateway
JoinVoiceCall(h) ==
    /\ transport' = "held"
    /\ gwq' = EnqueueJoin(gwq, h)

\* case 'play', index.ts:152-181 / 200-201, up to the first await
Play(h, videoArg, ch) ==
    /\ NoMicrotask
    /\ LowestIdle(h)
    /\ IF AlreadyJoined
       THEN /\ obs' = Obs("play", "start", "Already joined", "none")
            /\ UNCHANGED <<handlers, transport, gwq>>
       ELSE IF Lookup(videos, videoArg) = NotFound
       THEN /\ obs' = Obs("play", "start", "Video not found", "none")
            /\ UNCHANGED <<handlers, transport, gwq>>
       ELSE /\ CanAdmit
            /\ obs' = Obs("play", "start", "none", IF config.respect_video_params THEN "info" ELSE "none")
            /\ IF config.respect_video_params
               THEN /\ handlers' = [handlers EXCEPT ![h] =
                          [IdleHandler EXCEPT !.cmd = "play", !.pc = "getVideoParams", !.channel = ch]]
                    /\ UNCHANGED <<transport, gwq>>
               ELSE /\ handlers' = [handlers EXCEPT ![h] =
                          [IdleHandler EXCEPT !.cmd = "play", !.pc = "joinVoice", !.channel = ch]]
                    /\ JoinVoiceCall(h)
    /\ UNCHANGED <<config, process, streamStatus, command, streamOpts, videos, pipes, botChannel, presence>>

\* getVideoParams resolves, index.ts:181-194, then joinVoice is called
GetVideoParamsResolved(h, resolution) ==
    /\ NoMicrotask
    /\ handlers[h].pc = "getVideoParams"
    /\ streamOpts' = ApplyVideoParams(streamOpts, resolution)
    /\ handlers' = [handlers EXCEPT ![h].pc = "joinVoice"]
    /\ JoinVoiceCall(h)
    /\ obs' = Obs("play", "getVideoParams", "none", "none")
    /\ UNCHANGED <<config, process, streamStatus, command, videos, pipes, botChannel, presence>>

\* getVideoParams rejects, index.ts:196-198, then joinVoice is called
GetVideoParamsRejected(h) ==
    /\ NoMicrotask
    /\ handlers[h].pc = "getVideoParams"
    /\ handlers' = [handlers EXCEPT ![h].pc = "joinVoice"]
    /\ JoinVoiceCall(h)
    /\ obs' = Obs("play", "getVideoParams", "none", "error")
    /\ UNCHANGED <<config, process, streamStatus, command, streamOpts, videos, pipes, botChannel, presence>>

\* case 'playlink', index.ts:222-237, up to the first await
PlayLink(h, link, ch) ==
    /\ NoMicrotask
    /\ LowestIdle(h)
    /\ IF AlreadyJoined
       THEN /\ obs' = Obs("playlink", "start", "Already joined", "none")
            /\ UNCHANGED <<handlers, transport, gwq>>
       ELSE IF link = ""
       THEN /\ obs' = Obs("playlink", "start", "Please provide a link.", "none")
            /\ UNCHANGED <<handlers, transport, gwq>>
       ELSE /\ CanAdmit
            /\ obs' = Obs("playlink", "start", "none", "none")
            /\ handlers' = [handlers EXCEPT ![h] =
                  [IdleHandler EXCEPT !.cmd = "playlink", !.pc = "joinVoice", !.channel = ch]]
            /\ JoinVoiceCall(h)
    /\ UNCHANGED <<config, process, streamStatus, command, streamOpts, videos, pipes, botChannel, presence>>

\* case 'ytplay', index.ts:275-290, up to the first await
YtPlay(h, title, ch) ==
    /\ NoMicrotask
    /\ LowestIdle(h)
    /\ IF AlreadyJoined
       THEN /\ obs' = Obs("ytplay", "start", "Already joined", "none")
            /\ UNCHANGED <<handlers, transport, gwq>>
       ELSE IF title = ""
       THEN /\ obs' = Obs("ytplay", "start", "Please provide a video title.", "none")
            /\ UNCHANGED <<handlers, transport, gwq>>
       ELSE /\ CanAdmit
            /\ obs' = Obs("ytplay", "start", "none", "none")
            /\ handlers' = [handlers EXCEPT ![h] =
                  [IdleHandler EXCEPT !.cmd = "ytplay", !.pc = "joinVoice", !.channel = ch]]
            /\ JoinVoiceCall(h)
    /\ UNCHANGED <<config, process, streamStatus, command, streamOpts, videos, pipes, botChannel, presence>>

\* joinVoice resolves (the gateway has handled the request and the voice
\* connection, not torn down meanwhile, is ready); createStream is called
JoinVoiceResolved(h) ==
    /\ NoMicrotask
    /\ handlers[h].pc = "joinVoice"
    /\ ~JoinPending(h)
    /\ transport /= "none"
    /\ handlers' = [handlers EXCEPT ![h].pc = "createStream"]
    /\ obs' = Obs(handlers[h].cmd, "joinVoice", "none", "none")
    /\ UNCHANGED <<config, process, streamStatus, command, streamOpts, videos, pipes, transport,
                   botChannel, gwq, presence>>

\* an awaited call rejects outside any try: the handler ends with the
\* rejection unhandled, nothing else runs
Throws(h) ==
    /\ handlers' = [handlers EXCEPT ![h] = IdleHandler]
    /\ obs' = Obs(handlers[h].cmd, handlers[h].pc, "none", "unhandledRejection")
    /\ UNCHANGED <<config, process, streamStatus, command, streamOpts, videos, pipes,
                   transport, botChannel, gwq, presence>>

JoinVoiceRejected(h) ==
    /\ NoMicrotask
    /\ handlers[h].pc = "joinVoice"
    /\ Throws(h)

CreateStreamRejected(h) ==
    /\ NoMicrotask
    /\ handlers[h].pc = "createStream"
    /\ Throws(h)

\* createStream resolves: index.ts:203-219 (play), 240-250 and 267-271
\* (playlink), 293-295 (ytplay).  validURL: ytdl.validateURL(link), the kind
\* of link the playlink command was given
CreateStreamResolved(h, validURL) ==
    /\ NoMicrotask
    /\ handlers[h].pc = "createStream"
    /\ transport /= "none"
    /\ CASE handlers[h].cmd = "play" \/ (handlers[h].cmd = "playlink" /\ ~validURL) ->
              /\ streamStatus' = SetPlaying(streamStatus, handlers[h].channel)
              /\ StartPlayVideo(h)
              /\ obs' = Obs(handlers[h].cmd, "createStream", "Now Playing",
                            IF handlers[h].cmd = "play" THEN "info" ELSE "none")
         [] handlers[h].cmd = "playlink" /\ validURL ->
              /\ streamStatus' = SetPlaying(streamStatus, handlers[h].channel)
              /\ handlers' = [handlers EXCEPT ![h].pc = "extract"]
              /\ obs' = Obs("playlink", "createStream", "none", "none")
              /\ UNCHANGED <<command, pipes, presence>>
         [] OTHER ->
              /\ handlers' = [handlers EXCEPT ![h].pc = "extract"]
              /\ obs' = Obs("ytplay", "createStream", "none", "none")
              /\ UNCHANGED <<streamStatus, command, pipes, presence>>
    /\ UNCHANGED <<config, process, streamOpts, videos, transport, botChannel, gwq>>

\* Promise.all of the source extraction settles: index.ts:253-264 (playlink
\* with a YouTube link), 295-312 (ytplay).  "url": a media url was found;
\* "null": getVideoUrl / ytPlayTitle gave null (or the search no title);
\* "caught": getVideoUrl rejected, which the catch at 255-258 logs and turns
\* into null
ExtractSettled(h, result) ==
    /\ NoMicrotask
    /\ handlers[h].pc = "extract"
    /\ result = "caught" => handlers[h].cmd = "playlink"
    /\ streamStatus' = IF handlers[h].cmd = "ytplay"
                       THEN SetPlaying(streamStatus, handlers[h].channel)
                       ELSE streamStatus
    /\ IF result = "url"
       THEN /\ StartPlayVideo(h)
            /\ obs' = Obs(handlers[h].cmd, "extract", "Now Playing", "none")
       ELSE /\ handlers' = [handlers EXCEPT ![h] = IdleHandler]
            /\ obs' = Obs(handlers[h].cmd, "extract", "none",
                          IF result = "caught" THEN "error" ELSE "none")
            /\ UNCHANGED <<command, pipes, presence>>
    /\ UNCHANGED <<config, process, streamOpts, videos, transport, botChannel, gwq>>

\* ytdl.getInfo, ytPlayTitle or yts.search rejects
ExtractRejected(h) ==
    /\ NoMicrotask
    /\ handlers[h].pc = "extract"
    /\ Throws(h)

\* case 'stop', index.ts:335-347
Stop ==
    /\ NoMicrotask
    /\ IF NotJoined
       THEN /\ obs' = Obs("stop", "start", "Already Stopped!", "none")
            /\ UNCHANGED pipes
       ELSE /\ pipes' = Cancel(pipes, command)
            /\ obs' = Obs("stop", "start", "Stopped playing video", "info")
    /\ UNCHANGED <<config, process, streamStatus, command, streamOpts, videos, handlers,
                   transport, botChannel, gwq, presence>>

\* case 'status', index.ts:358-363
Status ==
    /\ NoMicrotask
    /\ obs' = Obs("status", "start", StatusText(streamStatus), "none")
    /\ UNCHANGED <<config, process, streamStatus, command, streamOpts, videos, handlers, pipes,
                   transport, botChannel, gwq, presence>>

----------------------------------------------------------------------------
(* The gateway and the voiceStateUpdate handler, index.ts:107-132 *)

\* index.ts:119
voicePresence(pres, oldCh, newCh) ==
    IF oldCh /= "none" /\ newCh = "none" THEN "idle" ELSE pres

\* the bot's own membership changes from botChannel to newCh and the client
\* emits voiceStateUpdate(oldState, newState)
MembershipChange(newCh) ==
    /\ botChannel' = newCh
    /\ streamStatus' = voiceStateUpdate(streamStatus, botChannel, newCh)
    /\ presence' = voicePresence(presence, botChannel, newCh)
    /\ obs' = Obs(IF botChannel /= newCh THEN "voiceStateUpdate" ELSE "gateway",
                  botChannel, "none", "none")

\* the gateway handles the oldest request: a join of the target channel
\* (joinVoice) or a leave (leaveVoice)
GatewayHandles ==
    /\ NoMicrotask
    /\ gwq /= <<>>
    /\ gwq' = Tail(gwq)
    /\ MembershipChange(IF Head(gwq).type = "join" THEN ConfigInfo.channelId ELSE "none")
    /\ UNCHANGED <<config, process, command, streamOpts, videos, handlers, pipes, transport>>

\* the bot is disconnected from outside (kick, network drop)
Disconnected ==
    /\ NoMicrotask
    /\ botChannel /= "none"
    /\ MembershipChange("none")
    /\ UNCHANGED <<config, process, command, streamOpts, videos, handlers, pipes, transport, gwq>>

----------------------------------------------------------------------------
Next ==
    \/ \E h \in Handlers, videoArg \in VideoArgs, ch \in MessageChannels : Play(h, videoArg, ch)
    \/ \E h \in Handlers, resolution \in ProbeResults : GetVideoParamsResolved(h, resolution)
    \/ \E h \in Handlers : GetVideoParamsRejected(h)
    \/ \E h \in Handlers, link \in {"", "link"}, ch \in MessageChannels : PlayLink(h, link, ch)
    \/ \E h \in Handlers, title \in {"", "title"}, ch \in MessageChannels : YtPlay(h, title, ch)
    \/ \E h \in Handlers : JoinVoiceResolved(h)
    \/ \E h \in Handlers : JoinVoiceRejected(h)
    \/ \E h \in Handlers, validURL \in BOOLEAN : CreateStreamResolved(h, validURL)
    \/ \E h \in Handlers : CreateStreamRejected(h)
    \/ \E h \in Handlers, result \in {"url", "null", "caught"} : ExtractSettled(h, result)
    \/ \E h \in Handlers : ExtractRejected(h)
    \/ Stop
    \/ Status
    \/ \E p \in Pipes, how \in {"ended", "failed"} : StreamSettles(p, how)
    \/ \E p \in Pipes : PlayVideoFinally(p)
    \/ \E p \in Pipes : PlayVideoFinallyThrows(p)
    \/ GatewayHandles
    \/ Disconnected

Spec == Init /\ [][Next]_vars

----------------------------------------------------------------------------
(* Process termination, index.ts:593-616 *)

\* sendCrash, index.ts:593-598: the control channel is in the client's cache
\* and the crash notice is sent to it
sendCrash(proc) == [proc EXCEPT !.crashes = @ + 1]

\* the 'exit' listener, index.ts:604-606, runs as the process exits
OnExit(proc) == [sendCrash(proc) EXCEPT !.state = "exited"]

\* the SIGINT / SIGTERM listener, index.ts:608-616, up to its await
Signal(sig) ==
    /\ NoMicrotask
    /\ process' = [sendCrash(process) EXCEPT !.state = "signalled"]
    /\ obs' = Obs(sig, "start", "I just crashed", "none")
    /\ UNCHANGED <<config, streamStatus, command, streamOpts, videos, handlers, pipes,
                   transport, botChannel, gwq, presence>>

\* the listener's continuation calls process.exit(), which emits 'exit'
SignalExit ==
    /\ process.state = "signalled"
    /\ process' = OnExit(process)
    /\ obs' = Obs("exit", "process.exit", "I just crashed", "none")
    /\ UNCHANGED <<config, streamStatus, command, streamOpts, videos, handlers, pipes,
                   transport, botChannel, gwq, presence>>

\* an exception nobody catches ends the process: Node emits 'exit'
UncaughtFault ==
    /\ NoMicrotask
    /\ process' = OnExit(process)
    /\ obs' = Obs("exit", "uncaughtException", "I just crashed", "none")
    /\ UNCHANGED <<config, streamStatus, command, streamOpts, videos, handlers, pipes,
                   transport, botChannel, gwq, presence>>

\* the session controller in a process that may be terminated
NextExit ==
    \/ Next
    \/ \E sig \in {"SIGINT", "SIGTERM"} : Signal(sig)
    \/ SignalExit
    \/ UncaughtFault

SpecExit == Init /\ [][NextExit]_vars

----------------------------------------------------------------------------
(* The catalog and its lookup, index.ts:60-81, 158-174, 364-376 *)

\* what readDirRecursive may return: distinct paths in directory order
Catalogs ==
    {files \in UNION {[1..n -> Files] : n \in 0..MaxVideos} :
        \A i, j \in DOMAIN files : files[i] = files[j] => i = j}

InitLookup ==
    /\ config \in [respect_video_params : BOOLEAN]
    /\ streamStatus = [joined |-> FALSE, joinsucc |-> FALSE, playing |-> FALSE,
                       channelInfo |-> ConfigInfo]
    /\ command = 0
    /\ streamOpts = StaticOpts
    /\ videos \in {MapVideos(files) : files \in Catalogs}
    /\ handlers = [h \in Handlers |-> IdleHandler]
    /\ pipes = [p \in Pipes |-> FreePipe]
    /\ transport = "none"
    /\ botChannel = "none"
    /\ gwq = <<>>
    /\ presence = "idle"
    /\ process = [state |-> "running", crashes |-> 0]
    /\ obs = Obs("ready", "start", "none", "info")

\* case 'refresh', index.ts:364-376: the directory is scanned again and the
\* new list is sent
Refresh(files) ==
    /\ NoMicrotask
    /\ videos' = MapVideos(files)
    /\ obs' = Obs("refresh", "start", "list", "none")
    /\ UNCHANGED <<config, process, streamStatus, command, streamOpts, handlers, pipes,
                   transport, botChannel, gwq, presence>>

\* the lookup of case 'play', index.ts:158-174, on its own: the token and
\* the path of the entry it resolves to (or the not-found notice) are observed
LookupVideo(videoArg) ==
    /\ NoMicrotask
    /\ ~AlreadyJoined
    /\ obs' = Obs("lookup", videoArg,
                  IF Lookup(videos, videoArg) = NotFound THEN "Video not found"
                  ELSE Lookup(videos, videoArg).path, "none")
    /\ UNCHANGED <<config, process, streamStatus, command, streamOpts, videos, handlers,
                   pipes, transport, botChannel, gwq, presence>>

NextLookup ==
    \/ \E files \in Catalogs : Refresh(files)
    \/ \E videoArg \in VideoArgs : LookupVideo(videoArg)

SpecLookup == InitLookup /\ [][NextLookup]_vars

----------------------------------------------------------------------------
(* Properties *)

AlivePipes == {p \in Pipes : Alive(p)}

\* C1: in every reachable state at most one playback pipeline (a playVideo
\* invocation whose streamLivestreamVideo promise has not settled) is alive.
C1_AtMostOnePipelineAlive == Cardinality(AlivePipes) <= 1

\* C2: two overlapping play / playlink requests never both proceed: no handler
\* that was suspended past its streamStatus.joined check while another handler,
\* also past the check, called playVideo, ever calls playVideo itself.
C2_OverlappingPlaysNeverBothProceed == \A p \in Pipes : ~pipes[p].raced

\* C3: a play or playlink command handled while streamStatus.joined is true is
\* answered with the 'Already joined' error and changes neither streamStatus,
\* the command handle, the transport nor streamOpts (nor anything else of the
\* session).
C3_RejectedPlayChangesNothing ==
    [][(obs'.act \in {"play", "playlink"} /\ obs'.at = "start" /\ streamStatus.joined)
         => /\ obs'.out = "Already joined"
            /\ UNCHANGED <<streamStatus, command, transport, streamOpts,
                           handlers, pipes, gwq, presence>>]_vars

C3_Witness ==
    /\ obs.act \in {"play", "playlink"}
    /\ obs.at = "start"
    /\ obs.out = "Already joined"
    /\ streamStatus.joined
    /\ streamStatus.playing

\* the state right after a stop command was acknowledged for an Active session
\* (joined and playing; the stop itself leaves both as they are)
StopAcknowledged ==
    /\ obs.act = "stop"
    /\ obs.out = "Stopped playing video"
    /\ streamStatus.joined
    /\ streamStatus.playing

\* the state right after playVideo's finally block ran for a canceled handle
CancelObserved == obs.act = "playVideo" /\ obs.at = "canceled"

Released ==
    /\ ~streamStatus.joined
    /\ ~streamStatus.joinsucc
    /\ ~streamStatus.playing
    /\ streamStatus.channelInfo = EmptyInfo
    /\ transport = "none"
    /\ gwq /= <<>> /\ gwq[Len(gwq)].type = "leave"
    /\ presence = "idle"

\* C4: a stop issued while the session is Active (joined and playing) leads
\* to Idle and no pipeline starts or keeps running afterwards: no playVideo
\* is called right after the stop was acknowledged, and once the cancellation
\* has been observed and cleaned up (joined = playing = false, leaveVoice
\* called, presence idle) no pipeline is alive.
C4_StopLeadsToIdle ==
    [][/\ StopAcknowledged => \A p \in Pipes : pipes'[p].pc = "await" => pipes[p].pc = "await"
       /\ CancelObserved' => (Released' /\ AlivePipes' = {})]_vars

\* C5: every terminal outcome of a started pipeline (natural completion,
\* cancellation by stop, failure) is followed by the same release sequence:
\* the handle's settling schedules playVideo's continuation, and that
\* continuation, the very next step, calls leaveVoice, clears channelInfo,
\* resets the presence to idle, sends the finished notice and leaves
\* joined = joinsucc = playing = false.
C5_TerminalOutcomeReleases ==
    [][/\ \A p \in Pipes :
            (pipes[p].wrapper = "pending" /\ pipes'[p].wrapper /= "pending")
                => pipes'[p].pc = "settled"
       /\ (\E p \in Pipes : pipes[p].pc = "settled")
            => /\ Released'
               /\ obs'.act = "playVideo"
               /\ obs'.out = "Finished playing video"
               /\ \A p \in Pipes : pipes'[p].pc /= "settled"]_vars

ErrorNotices ==
    {"Already joined", "Video not found", "Please provide a link.",
     "Please provide a video title.", "Already Stopped!"}

\* C6: when source extraction fails for a playlink or ytplay request (the url
\* is null or the lookup rejects), the user receives an error notice and the
\* session is as before the request: joined = false, playing = false, no
\* transport held, no pipeline started.
C6_ExtractionFailureLeavesIdle ==
    (obs.act \in {"playlink", "ytplay"} /\ obs.at = "extract" /\ obs.out /= "Now Playing")
        => /\ obs.out \in ErrorNotices
           /\ ~streamStatus.joined
           /\ ~streamStatus.playing
           /\ transport = "none"

\* C7: when joinVoice or createStream rejects during a play / playlink request,
\* the user receives an error notice, the session is forced back to Idle
\* (joined = joinsucc = playing = false) and the voice connection acquired so
\* far is released.
C7_JoinFailureResets ==
    (obs.act \in {"play", "playlink"} /\ obs.at \in {"joinVoice", "createStream"}
        /\ obs.log = "unhandledRejection")
        => /\ obs.out \in ErrorNotices
           /\ ~streamStatus.joined
           /\ ~streamStatus.joinsucc
           /\ ~streamStatus.playing
           /\ transport = "none"

\* the session phase as encoded by streamStatus and the pipeline handle
Phase ==
    IF ~streamStatus.joined THEN "Idle"
    ELSE IF \E p \in Pipes : pipes[p].pc = "settled" THEN "Stopping"
    ELSE IF streamStatus.playing /\ command /= 0 /\ pipes[command].wrapper = "pending"
         THEN "Active"
    ELSE "Joining"

PhaseCycle ==
    {<<"Idle", "Joining">>, <<"Joining", "Active">>,
     <<"Active", "Stopping">>, <<"Stopping", "Idle">>}

\* C8: the session phase only changes in the order Idle, Joining, Active,
\* Stopping, Idle: no step skips a phase or goes backwards.
C8_PhasesFollowCycle == [][Phase' /= Phase => <<Phase, Phase'>> \in PhaseCycle]_vars

Acquiring == \E h \in Handlers : handlers[h].pc \in {"joinVoice", "createStream"}

\* C9: whenever streamStatus.joined is false no resources are held: no voice
\* connection is held or being acquired and no playback pipeline is alive.
C9_IdleHoldsNothing ==
    ~streamStatus.joined => (transport = "none" /\ ~Acquiring /\ AlivePipes = {})

\* the bot's own membership goes from some channel to no channel in this step
LeftChannel == botChannel /= "none" /\ botChannel' = "none"

\* C10: a voice-membership event reporting that the bot went from some channel
\* to no channel while a session is Active sets joined = joinsucc = playing =
\* false, and a status command handled next reports joined = false and
\* playing = false.
C10_LeftChannelForcesIdle ==
    [][/\ (LeftChannel /\ Phase = "Active")
            => (~streamStatus'.joined /\ ~streamStatus'.joinsucc /\ ~streamStatus'.playing)
       /\ (obs.act = "voiceStateUpdate" /\ obs.at /= "none" /\ obs'.act = "status")
            => obs'.out = "Joined: false Playing: false"]_vars

\* the left-channel event has just been handled for a session that was Active:
\* its handle is still pending
C10_Witness ==
    /\ obs.act = "voiceStateUpdate"
    /\ obs.at /= "none"
    /\ botChannel = "none"
    /\ command /= 0 /\ pipes[command].wrapper = "pending"
    /\ ~streamStatus.joined /\ ~streamStatus.joinsucc /\ ~streamStatus.playing

\* C11: a stop command handled while the session is Idle (streamStatus.joined
\* false), in particular a second stop after a stop that canceled an Active
\* session, is answered with the 'already stopped' error notice, raises no
\* fault and changes no session state, handle, transport or gateway request.
C11_StopWhileIdleChangesNothing ==
    [][(obs'.act = "stop" /\ ~streamStatus.joined)
         => /\ obs'.out = "Already Stopped!"
            /\ obs'.log /= "unhandledRejection"
            /\ UNCHANGED <<streamStatus, command, streamOpts, videos, handlers, pipes,
                           transport, botChannel, gwq, presence>>]_vars

\* the second stop: the handle of the session the first stop canceled is still
\* in command, its playVideo has returned
C11_Witness ==
    /\ obs.act = "stop" /\ obs.out = "Already Stopped!"
    /\ ~streamStatus.joined
    /\ command /= 0 /\ pipes[command].pc = "done" /\ Alive(command)

\* C12: on every process termination (SIGINT, SIGTERM, exit after an uncaught
\* fault) the crash notice is sent to the control channel at most once.
C12_CrashNoticeAtMostOnce == process.crashes <= 1

\* C13: the session cleanup (leaveVoice, presence reset, clearing of joined,
\* joinsucc, playing and channelInfo) has executed whenever playVideo returns
\* after a terminal outcome, also when a call before it in the finally block
\* (the media-connection status calls, sendFinishMessage) fails.
C13_CleanupAlwaysRuns ==
    [][\A p \in Pipes : (pipes[p].pc = "settled" /\ pipes'[p].pc /= "settled") => Released']_vars

\* C14: for a catalog of N entries, a numeral token k with 1 <= k <= N (so
\* "1" on a non-empty catalog) resolves to the k-th scanned entry, and "0",
\* N+1, every larger and every negative numeral resolve to not-found.
C14_IndexLookup ==
    (obs.act = "lookup" /\ obs.at \in DOMAIN NumberTable)
        => LET k == NumberTable[obs.at]
           IN /\ (1 <= k /\ k <= Len(videos)) => obs.out = videos[k].path
              /\ (k < 1 \/ k > Len(videos)) => obs.out = "Video not found"

C14_Witness ==
    /\ obs.act = "lookup" /\ obs.at = "3"
    /\ Len(videos) = 3 /\ obs.out = videos[3].path

\* the tokens that denote an entry: its 1-based index and its name
IndexToken(i) == CHOOSE t \in DOMAIN NumberTable : NumberTable[t] = i

NameToken(name) == CHOOSE t \in DOMAIN NameTable : NameTable[t] = name

\* C15: for every entry of every catalog a scan can produce (names that are
\* numerals or occur twice included), the lookup by its 1-based index and the
\* lookup by its exact normalized name resolve to the same entry (same path).
C15_IndexAndNameAgree ==
    \A i \in DOMAIN videos :
        Lookup(videos, IndexToken(i)).path = Lookup(videos, NameToken(videos[i].name)).path

\* a token that denotes no entry of the catalog, by index or by name
NoMatch(videoArg) ==
    /\ videoArg \in DOMAIN NumberTable
          => ~(1 <= NumberTable[videoArg] /\ NumberTable[videoArg] <= Len(videos))
    /\ videoArg \in DOMAIN NameTable
          => \A i \in DOMAIN videos : videos[i].name /= NameTable[videoArg]

C17_CanceledIsNoError ==
    obs.act = "playVideo"
        => /\ obs.at = "canceled" => obs.log /= "error"
           /\ obs.at = "rejected" => (obs.log = "error" /\ obs.out \notin ErrorNotices)
           /\ obs.at \in {"canceled", "rejected"} => obs.out = "Finished playing video"

\* the controller has observed the outcome of pipeline p: playVideo's await
\* on the handle has returned or thrown and the function has run to its end
OutcomeObserved(p) == pipes[p].pc = "done"

\* C18: once a stop has been acknowledged and playVideo has observed the
\* cancellation, the transmission streamLivestreamVideo started is no longer
\* running: no pipeline whose outcome the controller has observed is alive.
C18_NoStragglerAfterCancel == \A p \in Pipes : OutcomeObserved(p) => ~Alive(p)

\* C19: at the start of every session whose probe is disabled, not run
\* (playlink, ytplay) or fails, that is when such a session calls joinVoice
\* with streamOpts, the stream parameters equal the static configuration,
\* whatever earlier sessions probed.
C19_ProbeOverridesOneSession ==
    LET probeDisabled == /\ obs.act = "play" /\ obs.at = "start" /\ obs.out = "none"
                         /\ ~config.respect_video_params
        probeFailed == obs.act = "play" /\ obs.at = "getVideoParams" /\ obs.log = "error"
        probeNotRun == /\ obs.act \in {"playlink", "ytplay"}
                       /\ obs.at = "start" /\ obs.out = "none"
    IN (probeDisabled \/ probeFailed \/ probeNotRun) => streamOpts = StaticOpts

\* C20: whenever the bot's own membership goes from no channel into the
\* configured target channel, streamStatus.joinsucc becomes true, in every
\* session, also one started after an earlier session was cleaned up.
C20_JoinConfirmsJoinsucc ==
    [][(botChannel = "none" /\ botChannel' = ConfigInfo.channelId)
          => streamStatus'.joinsucc]_vars

\* a session started after pipeline p was started and still under way: a
\* later pipeline whose handle is pending, or a handler suspended at an await
\* during which no pipeline has been started
LaterSession(p) ==
    \/ command /= p /\ command /= 0 /\ pipes[command].wrapper = "pending"
    \/ \E h \in Handlers : handlers[h].pc /= "idle" /\ ~handlers[h].rivalPlayed

\* C21: the terminal cleanup of a pipeline (playVideo's finally block calling
\* cleanupStreamStatus) tears down only the session that started it: it never
\* calls leaveVoice or clears joined / playing / channelInfo while a session
\* started later is joined or playing.
C21_CleanupOnlyOwnSession ==
    [][\A p \in Pipes :
          (pipes[p].pc = "settled" /\ pipes'[p].pc /= "settled"
              /\ obs'.out = "Finished playing video")
            => ~(LaterSession(p) /\ (streamStatus.joined \/ streamStatus.playing))]_vars

\* C22: in every reachable state the status flags are consistent: playing
\* implies joined and joinsucc implies joined.
C22_FlagsConsistent ==
    /\ streamStatus.playing => streamStatus.joined
    /\ streamStatus.joinsucc => streamStatus.joined

\* a handler has set playing after a left-channel event had cleared joined
\* while that handler was suspended
C22_Witness ==
    /\ obs.act \in {"play", "playlink", "ytplay"} /\ obs.at \in {"createStream", "extract"}
    /\ streamStatus.playing /\ streamStatus.joined
    /\ botChannel = "none"

====
